---- MODULE Spec2Model ----
(***************************************************************************)
(* The MCP client of src/src/mcp.rs as a state machine: the McpClient      *)
(* facade (connect, list_tools, call_tool) run by the consumer task, which *)
(* is also the only task that polls the bounded event channel              *)
(* (src/src/app.rs), and one background task per connection attempt (the   *)
(* task spawned by connect, which runs sse_listener_loop).  Every `.await` *)
(* of the source that can suspend a task (a send on the bounded channel,   *)
(* the GET, a POST, a sleep, the select) ends one step of the model.       *)
(***************************************************************************)
EXTENDS Integers, Sequences, FiniteSets, TLC

\* ------------------------------------------------------------------ bounds
MaxAttempts == 2      \* connect calls made on the client
MaxCalls    == 1      \* list_tools / call_tool calls made on the client
MaxFrames   == 3      \* SSE blocks the servers deliver, all attempts together
MaxBlocks   == 2      \* complete SSE blocks one stream item can hold
MaxRespId   == 2      \* ids the server puts in its responses: 1..MaxRespId
ChanCap     == 2      \* capacity of the event channel (100 in App::new), scaled down

Attempts == 1..MaxAttempts
NoEp     == "None"
EpNames  == {"/e1", "/e2"}
Urls     == {"http://h/sse"}

\* ------------------------------------------------------------------ state
VARIABLES
  base_url,           \* McpClient.base_url: NoEp (None) or a url
  session_endpoint,   \* McpClient.session_endpoint: NoEp (None) or a payload
  ep_attempt,         \* ghost: the attempt that wrote session_endpoint (0: none)
  pending,            \* McpClient.pending: the ids that have an entry
  sse_shutdown,       \* McpClient.sse_shutdown: attempt whose sender it holds (0: None)
  next_id,            \* McpClient.next_id
  issued,             \* ghost: every id given out by fetch_add, in order
  channel,            \* the mpsc channel of McpClientEvent, oldest first
  attempts,           \* number of connect calls made so far
  delivered,          \* SSE blocks delivered so far, all attempts together
  pc,                 \* position of each attempt's background task
  trace,              \* ghost: per live attempt, the steps of its lifecycle, in order
  shutdown_rx,        \* per attempt: its shutdown receiver is ready (sender dropped)
  blocks,             \* per attempt: complete blocks ("..\n\n") left in buf
  endpoint_received,  \* sse_listener_loop local
  initialized,        \* sse_listener_loop local
  req_id,             \* per attempt: `id` of send_initialize / auto_load_tools
  init_id,            \* ghost: per live attempt, the id its initialize got (0: none)
  out,                \* per attempt: events handle_json_rpc_event has still to send
  cpc,                \* position of the consumer task
  call,               \* the list_tools / call_tool call in progress
  calls,              \* number of list_tools / call_tool calls made so far
  result,             \* result formatter: the result value handed to the classifier
  messages,           \* result formatter: the Message events sent for it, in order
  fpc,                \* result formatter: "idle", or "done" once the value is handled
  bytes,              \* SSE parser: the bytes of the whole response body
  unread,             \* SSE parser: the bytes stream.next() has not yielded yet
  nchunks,            \* SSE parser: chunks stream.next() has yielded so far
  buf,                \* SSE parser: sse_listener_loop's buf, as characters
  extracted,          \* SSE parser: the (event_type, data) of the blocks parsed so far
  point,              \* locks: per task, the point of the code it is at
  held,               \* locks: per mutex, the task that holds its guard (Free: none)
  url_args,           \* join_url: its arguments, the base by its parts
  full_url,           \* join_url: the string it returned (empty: not called yet)
  log_lines,          \* OutputLog.lines
  appended,           \* ghost: number of with_message calls made on the log
  buffer,             \* Buffer: content (its bytes) and cursor, or Panicked
  completion,         \* CompletionResult: number of candidates, and selected
  wrapping,           \* a call of wrap_text: its arguments and the lines it returned
  app                 \* the App: its fields, and the call its last step made on mcp_client

shared   == << base_url, session_endpoint, ep_attempt, pending, sse_shutdown >>
ids      == << next_id, issued >>
env      == << attempts, delivered >>
locals   == << shutdown_rx, blocks, endpoint_received, initialized, req_id,
              init_id, out >>
consumer == << cpc, call, calls >>
client   == << shared, ids, channel, env, pc, trace, locals, consumer >>
\* the variables of the specifications of single functions, which the client's
\* steps leave alone
formatter == << result, messages, fpc >>
parser   == << bytes, unread, nchunks, buf, extracted >>
locks    == << point, held >>
joiner   == << url_args, full_url >>
output_log == << log_lines, appended >>
editor   == << buffer >>
completer == << completion >>
wrapper  == << wrapping >>
application == << app >>
pure     == << formatter, parser, locks, joiner, output_log, editor, completer, wrapper, application >>
vars     == << client, pure >>

\* ----------------------------------------------------------- SSE frames
\* A frame is what the parser of sse_listener_loop extracts from one block:
\* its event type and data, here by the shape of the data.
EndpointFrame(e) == [ty |-> "endpoint", id |-> 0, ep |-> e]
Response(k, b)   == [ty |-> b, id |-> k, ep |-> NoEp]
Notification     == [ty |-> "notification", id |-> 0, ep |-> NoEp]
TextFrame        == [ty |-> "text", id |-> 0, ep |-> NoEp]
EmptyFrame       == [ty |-> "empty", id |-> 0, ep |-> NoEp]

\* a response carries a result, a result with a tools array, or an error
Bodies == {"result", "tools", "error"}
Frames == {EndpointFrame(e) : e \in EpNames}
          \cup {Response(k, b) : k \in 1..MaxRespId, b \in Bodies}
          \cup {Notification, TextFrame, EmptyFrame}

\* One item of the byte stream completes no block, one block, or several.  What
\* a block holds is drawn from Frames when the loop parses it: nothing else
\* reads buf.
Chunks == {c \in 0..MaxBlocks : delivered + c <= MaxFrames}

\* serde_json::from_str(&data) succeeds
IsJson(f) == f.ty \in Bodies \cup {"notification"}
\* v.get("result").is_some(): a tools/list result is a result too
HasResult(f) == f.ty \in {"result", "tools"}

\* ------------------------------------------------------------- events
\* an McpClientEvent, by its variant (sent by the task of attempt a, 0: the caller)
Ev(k, a) == k

\* event_tx.send(ev).await: waits while the channel is full
Send(ev) ==
  /\ Len(channel) < ChanCap
  /\ channel' = Append(channel, ev)

\* a counter that hands out its value without advancing
FetchAddSame(n) == n

\* next_id.fetch_add(1, Ordering::SeqCst): the value the counter is left with
FetchAdd(n) == n + 1

\* a request takes its id: next_id is given out and the counter stepped
Issue ==
  /\ next_id' = FetchAdd(next_id)
  /\ issued' = Append(issued, next_id)

\* a classifier that reports an error response as plain output
handle_json_rpc_event_error_as_message(f) ==
  CASE f.ty = "tools"        -> <<>>
    [] f.ty = "result"       -> <<"Message">>
    [] f.ty = "error"        -> <<"Message">>
    [] f.ty = "notification" -> <<"Message">>
    [] OTHER                 -> <<>>

\* the events handle_json_rpc_event sends for the value v, in order
handle_json_rpc_event(f) ==
  CASE f.ty = "tools"        -> <<>>
    [] f.ty = "result"       -> <<"Message">>
    [] f.ty = "error"        -> <<"Error", "Message">>
    [] f.ty = "notification" -> <<"Message">>
    [] OTHER                 -> <<>>

\* The ghost trace of an attempt holds the events its task sends about the
\* connection (Connected, Error, Disconnected), ToolsListed, and the steps
\* "endpoint_stored", "endpoint_again", "initialize_post", "initialized",
\* "auto_post".
Traced(k) == IF k \in {"Connected", "Error", "Disconnected", "ToolsListed"}
             THEN <<k>> ELSE <<>>

\* ----------------------------------------------------------- join_url
\* Urls as sequences of characters.  Chars gives the characters of the strings
\* the protocol state holds.
Chars ==
  [s \in Urls \cup EpNames |->
     CASE s = "http://h/sse" -> << "h", "t", "t", "p", ":", "/", "/", "h", "/", "s", "s", "e" >>
       [] s = "/e1"          -> << "/", "e", "1" >>
       [] s = "/e2"          -> << "/", "e", "2" >>]

\* s.starts_with(p), s.ends_with(p)
StartsWith(s, p) == Len(s) >= Len(p) /\ SubSeq(s, 1, Len(p)) = p
EndsWith(s, p) == Len(s) >= Len(p) /\ SubSeq(s, Len(s) - Len(p) + 1, Len(s)) = p

\* s.find(p): the number of characters before the first occurrence of p in s
\* (Rust's Some(i)), or -1 (None)
Find(s, p) ==
  LET at == {i \in 0..(Len(s) - Len(p)) : SubSeq(s, i + 1, i + Len(p)) = p}
  IN IF at = {} THEN -1 ELSE CHOOSE i \in at : \A j \in at : i <= j

\* &s[from..to] and &s[from..], with Rust's offsets
Slice(s, from, to) == SubSeq(s, from + 1, to)
SliceFrom(s, from) == SubSeq(s, from + 1, Len(s))

\* a join that only concatenates
join_url_concatenated(base, endpoint) == base \o endpoint

\* join_url(base, endpoint), on strings as sequences of characters
join_url(base, endpoint) ==
  IF \/ StartsWith(endpoint, << "h", "t", "t", "p", ":", "/", "/" >>)
     \/ StartsWith(endpoint, << "h", "t", "t", "p", "s", ":", "/", "/" >>)
  THEN endpoint
  ELSE
    LET scheme_end == Find(base, << ":", "/", "/" >>)
    IN IF scheme_end # -1
       THEN LET scheme     == Slice(base, 0, scheme_end + 3)
                rest       == SliceFrom(base, scheme_end + 3)
                slash      == Find(rest, << "/" >>)
                path_start == IF slash = -1 THEN Len(rest) ELSE slash
                host_port  == Slice(rest, 0, path_start)
            IN IF StartsWith(endpoint, << "/" >>)
               THEN scheme \o host_port \o endpoint
               ELSE LET existing_path == IF path_start < Len(rest)
                                         THEN SliceFrom(rest, path_start) ELSE << >>
                        joined  == scheme \o host_port \o existing_path
                        pushed  == IF ~EndsWith(joined, << "/" >>)
                                      /\ ~StartsWith(endpoint, << "/" >>)
                                   THEN Append(joined, "/") ELSE joined
                        popped  == IF EndsWith(pushed, << "/" >>)
                                      /\ StartsWith(endpoint, << "/" >>)
                                   THEN Slice(pushed, 0, Len(pushed) - 1) ELSE pushed
                    IN popped \o endpoint
       ELSE LET popped == IF EndsWith(base, << "/" >>) /\ StartsWith(endpoint, << "/" >>)
                          THEN Slice(base, 0, Len(base) - 1) ELSE base
                pushed == IF ~EndsWith(popped, << "/" >>) /\ ~StartsWith(endpoint, << "/" >>)
                          THEN Append(popped, "/") ELSE popped
            IN pushed \o endpoint

\* a request that always goes to the base url
PostUrlBaseOnly(base, ep) == Chars[base]

\* send_jsonrpc's url: the base if no endpoint was read (endpoint_str is empty),
\* else join_url(&base, &endpoint_str)
PostUrl(base, ep) ==
  IF ep = NoEp THEN Chars[base] ELSE join_url(Chars[base], Chars[ep])

\* no list_tools or call_tool call is in progress
NoCall == [id |-> 0, ep |-> NoEp, ep_attempt |-> 0, attempt |-> 0, url |-> << >>]

\* --------------------------------------------------------------- Init
\* McpClient::new, and App::new's channel; no task is spawned yet.
ClientInit ==
  /\ base_url = NoEp
  /\ session_endpoint = NoEp
  /\ ep_attempt = 0
  /\ pending = {}
  /\ sse_shutdown = 0
  /\ next_id = 1
  /\ issued = <<>>
  /\ channel = <<>>
  /\ attempts = 0
  /\ delivered = 0
  /\ pc = [a \in Attempts |-> "unborn"]
  /\ trace = [a \in Attempts |-> <<>>]
  /\ shutdown_rx = [a \in Attempts |-> FALSE]
  /\ blocks = [a \in Attempts |-> 0]
  /\ endpoint_received = [a \in Attempts |-> FALSE]
  /\ initialized = [a \in Attempts |-> FALSE]
  /\ req_id = [a \in Attempts |-> 0]
  /\ init_id = [a \in Attempts |-> 0]
  /\ out = [a \in Attempts |-> <<>>]
  /\ cpc = "idle"
  /\ call = NoCall
  /\ calls = 0

\* no result value is in hand
FormatterIdle ==
  /\ result = [kind |-> "generic", lines |-> 0]
  /\ messages = <<>>
  /\ fpc = "idle"

\* no response body is being read
ParserIdle ==
  /\ bytes = <<>>
  /\ unread = <<>>
  /\ nchunks = 0
  /\ buf = <<>>
  /\ extracted = <<>>

\* the tasks that use the two mutexes: the caller of list_tools / call_tool (0)
\* and the background task of each attempt
LockTasks == 0..MaxAttempts
LockNames == {"session_endpoint", "pending"}
Free      == -1

\* no task is inside send_jsonrpc or the loop
LocksIdle ==
  /\ point = [t \in LockTasks |-> "off"]
  /\ held = [l \in LockNames |-> Free]

\* join_url is not being called
JoinerIdle ==
  /\ url_args = [base |-> [scheme |-> <<>>, host |-> <<>>, port |-> <<>>, path |-> <<>>],
                 endpoint |-> <<>>]
  /\ full_url = <<>>

\* OutputLog::new
OutputLogIdle ==
  /\ log_lines = <<>>
  /\ appended = 0

\* Buffer::new
EditorIdle == buffer = [content |-> <<>>, cursor |-> 0]

\* CompletionResult::empty
CompleterIdle == completion = [candidates |-> 0, selected |-> 0]

\* no call of wrap_text
NoWrap == [text |-> <<>>, width |-> 0, indent |-> 0, wrapped |-> <<>>, returned |-> TRUE]
WrapperIdle == wrapping = NoWrap

\* App::new(config).  An Option is a sequence of at most one value; output is
\* the number of lines of the OutputLog, which starts with one message.
AppNew(config) ==
  [config |-> config, mode |-> "Normal", output |-> 1,
   input_buffer |-> [content |-> <<>>, cursor |-> 0], quit |-> FALSE,
   server_selection |-> <<>>, tool_selection |-> <<>>, available_tools |-> <<>>,
   scroll_offset |-> 0, autoscroll |-> TRUE, output_height |-> 0,
   issued |-> <<>>, panicked |-> FALSE]

AppIdle == app = AppNew(<<>>)

Init == ClientInit /\ FormatterIdle /\ ParserIdle /\ LocksIdle /\ JoinerIdle /\ OutputLogIdle /\ EditorIdle /\ CompleterIdle /\ WrapperIdle /\ AppIdle

\* the task of attempt a moves to l, having done the steps ts
Goto(a, l, ts) ==
  /\ pc' = [pc EXCEPT ![a] = l]
  /\ trace' = [trace EXCEPT ![a] = @ \o ts]

\* the task of attempt a does a step that touches nothing but its position
Silent(a, l) ==
  /\ Goto(a, l, <<>>)
  /\ UNCHANGED << pure, shared, ids, channel, env, locals, consumer >>

\* the task of attempt a sends an event of kind k and moves to l
Emit(a, k, l) ==
  /\ Send(Ev(k, a))
  /\ Goto(a, l, Traced(k))
  /\ UNCHANGED << pure, shared, ids, env, locals, consumer >>

\* The task of attempt a sends its last event and returns: its locals are
\* dropped, and the ghosts kept for it with them.
Exit(a, k) ==
  /\ Send(Ev(k, a))
  /\ pc' = [pc EXCEPT ![a] = "done"]
  /\ trace' = [trace EXCEPT ![a] = <<>>]
  /\ shutdown_rx' = [shutdown_rx EXCEPT ![a] = FALSE]
  /\ endpoint_received' = [endpoint_received EXCEPT ![a] = FALSE]
  /\ initialized' = [initialized EXCEPT ![a] = FALSE]
  /\ init_id' = [init_id EXCEPT ![a] = 0]
  /\ UNCHANGED << pure, shared, ids, env, blocks, req_id, out, consumer >>

\* the task of attempt a is in sse_listener_loop
InLoop(a) == pc[a] \notin {"unborn", "connecting", "get", "status_ok", "status_bad",
                           "http_failed", "connect_error", "connected", "done"}

\* ------------------------------------------------- McpClient::connect
\* The part of connect that runs on the caller: it replaces the shutdown
\* sender, which drops the earlier one and so makes the shutdown_rx of the
\* earlier attempt ready, and spawns the task.
Connect(url) ==
  /\ cpc = "idle"
  /\ attempts < MaxAttempts
  /\ base_url' = url
  /\ attempts' = attempts + 1
  /\ sse_shutdown' = attempts + 1
  /\ shutdown_rx' = IF sse_shutdown = 0 \/ pc[sse_shutdown] = "done" THEN shutdown_rx
                    ELSE [shutdown_rx EXCEPT ![sse_shutdown] = TRUE]
  /\ pc' = [pc EXCEPT ![attempts + 1] = "connecting"]
  /\ UNCHANGED << pure, session_endpoint, ep_attempt, pending, ids, channel, delivered,
                  trace, blocks, endpoint_received, initialized, req_id,
                  init_id, out, consumer >>

\* ------------------------------------------- the task connect spawns
ConnectingDebug(a) ==
  /\ pc[a] = "connecting"
  /\ Emit(a, "Debug", "get")

\* client.get(&url).send().await: a success status, another status, or no response
Get(a) ==
  /\ pc[a] = "get"
  /\ \E l \in {"status_ok", "status_bad", "connect_error"} : Silent(a, l)

\* a task that goes on as connected whatever the status
InitialResponseDebugUnchecked(a) ==
  /\ pc[a] \in {"status_ok", "status_bad"}
  /\ Emit(a, "Debug", "connected")

\* the Debug event with the status; then the check of status().is_success()
InitialResponseDebug(a) ==
  /\ pc[a] \in {"status_ok", "status_bad"}
  /\ Emit(a, "Debug", IF pc[a] = "status_ok" THEN "connected" ELSE "http_failed")

\* !response.status().is_success(): the Error event, and return
HttpConnectFailed(a) ==
  /\ pc[a] = "http_failed"
  /\ Exit(a, "Error")

\* Err(e): the Error event, and the task ends
ConnectError(a) ==
  /\ pc[a] = "connect_error"
  /\ Exit(a, "Error")

\* a task that reports the connection and stays where it is
ConnectedRepeated(a) ==
  /\ pc[a] = "connected"
  /\ Emit(a, "Connected", "connected")

\* event_tx.send(McpClientEvent::Connected), then sse_listener_loop
Connected(a) ==
  /\ pc[a] = "connected"
  /\ Emit(a, "Connected", "loop_started")

\* ------------------------------------------------- sse_listener_loop
LoopStartedDebug(a) ==
  /\ pc[a] = "loop_started"
  /\ Emit(a, "Debug", "select")

\* a select! that polls the stream though the shutdown branch is ready
StreamPolledAnyway(a) == TRUE

\* biased: the stream branch is polled only if the shutdown branch is not ready
StreamPolled(a) == ~shutdown_rx[a]

\* select! { biased; _ = &mut shutdown_rx => ... }: taken whenever it is ready
SelectShutdown(a) ==
  /\ pc[a] = "select"
  /\ shutdown_rx[a]
  /\ Silent(a, "shutdown")

\* item = stream.next() is Some(Ok(chunk)): buf now holds c complete blocks
SelectChunk(a) ==
  /\ pc[a] = "select"
  /\ StreamPolled(a)
  /\ \E c \in Chunks : /\ blocks' = [blocks EXCEPT ![a] = c]
                       /\ delivered' = delivered + c
  /\ Goto(a, "block", <<>>)
  /\ UNCHANGED << pure, shared, ids, channel, attempts, shutdown_rx, endpoint_received,
                  initialized, req_id, init_id, out, consumer >>

\* item is Some(Err(e))
SelectStreamError(a) ==
  /\ pc[a] = "select"
  /\ StreamPolled(a)
  /\ Silent(a, "stream_error")

\* item is None
SelectStreamEnd(a) ==
  /\ pc[a] = "select"
  /\ StreamPolled(a)
  /\ Silent(a, "stream_ended")

ShutdownDebug(a) ==
  /\ pc[a] = "shutdown"
  /\ Emit(a, "Debug", "shutdown_disconnected")

ShutdownDisconnected(a) ==
  /\ pc[a] = "shutdown_disconnected"
  /\ Emit(a, "Disconnected", "terminated")

\* the Error event of a stream error, and break
StreamError(a) ==
  /\ pc[a] = "stream_error"
  /\ Emit(a, "Error", "terminated")

StreamEndedDebug(a) ==
  /\ pc[a] = "stream_ended"
  /\ Emit(a, "Debug", "ended_disconnected")

StreamEndedDisconnected(a) ==
  /\ pc[a] = "ended_disconnected"
  /\ Emit(a, "Disconnected", "terminated")

\* after the loop: the last Debug event, and the task ends
TerminatedDebug(a) ==
  /\ pc[a] = "terminated"
  /\ Exit(a, "Debug")

\* while let Some(split) = buf.find("\n\n"): no complete block is left
BlocksDone(a) ==
  /\ pc[a] = "block"
  /\ blocks[a] = 0
  /\ Silent(a, "select")

\* a loop that parses the first block of buf and leaves it there
PeekBlock(a) ==
  /\ pc[a] = "block"
  /\ blocks[a] > 0
  /\ blocks' = blocks

\* the loop takes the next block out of buf
TakeBlock(a) ==
  /\ pc[a] = "block"
  /\ blocks[a] > 0
  /\ blocks' = [blocks EXCEPT ![a] = @ - 1]

\* the block has no data: continue
BlockEmpty(a, f) ==
  /\ f.ty = "empty"
  /\ TakeBlock(a)
  /\ UNCHANGED << pure, shared, ids, channel, env, pc, trace, shutdown_rx,
                  endpoint_received, initialized, req_id, init_id, out, consumer >>

\* a guard that forgets the endpoint_received flag
StoresEndpointAlways(a, f) == f.ty = "endpoint"

\* event_type == "endpoint" && !endpoint_received
StoresEndpoint(a, f) == f.ty = "endpoint" /\ ~endpoint_received[a]

\* the first endpoint frame of the attempt: store the endpoint
BlockEndpoint(a, f) ==
  /\ StoresEndpoint(a, f)
  /\ TakeBlock(a)
  /\ session_endpoint' = f.ep
  /\ ep_attempt' = a
  /\ endpoint_received' = [endpoint_received EXCEPT ![a] = TRUE]
  /\ Goto(a, "endpoint_stored", <<"endpoint_stored">>)
  /\ UNCHANGED << pure, base_url, pending, sse_shutdown, ids, channel, env, shutdown_rx,
                  initialized, req_id, init_id, out, consumer >>

\* every result with id 1 is taken for the reply to initialize
IsInitializeReplyEveryTime(a, f) == IsJson(f) /\ f.id = 1 /\ HasResult(f)

\* the value is taken for the reply to initialize: !initialized, id == 1, a result
IsInitializeReply(a, f) == IsJson(f) /\ ~initialized[a] /\ f.id = 1 /\ HasResult(f)

BlockInitialized(a, f) ==
  /\ IsInitializeReply(a, f)
  /\ TakeBlock(a)
  /\ initialized' = [initialized EXCEPT ![a] = TRUE]
  /\ Goto(a, "initialized", <<"initialized">>)
  /\ UNCHANGED << pure, shared, ids, channel, env, shutdown_rx, endpoint_received,
                  req_id, init_id, out, consumer >>

\* any other JSON value goes to handle_json_rpc_event
BlockJson(a, f) ==
  /\ IsJson(f)
  /\ ~IsInitializeReply(a, f)
  /\ TakeBlock(a)
  /\ out' = [out EXCEPT ![a] = handle_json_rpc_event(f)]
  /\ Goto(a, "handle", <<>>)
  /\ UNCHANGED << pure, shared, ids, channel, env, shutdown_rx, endpoint_received,
                  initialized, req_id, init_id, consumer >>

\* Data that is not JSON is sent as a Message; that of a later endpoint frame
\* too, which the ghost trace notes as "endpoint_again".
BlockText(a, f) ==
  /\ \/ f.ty = "text"
     \/ f.ty = "endpoint" /\ ~StoresEndpoint(a, f)
  /\ TakeBlock(a)
  /\ out' = [out EXCEPT ![a] = <<"Message">>]
  /\ Goto(a, "handle", IF f.ty = "endpoint" THEN <<"endpoint_again">> ELSE <<>>)
  /\ UNCHANGED << pure, shared, ids, channel, env, shutdown_rx, endpoint_received,
                  initialized, req_id, init_id, consumer >>

\* the sends of handle_json_rpc_event, one at a time
HandleSend(a) ==
  /\ pc[a] = "handle"
  /\ out[a] # <<>>
  /\ out' = [out EXCEPT ![a] = Tail(@)]
  /\ Send(Ev(Head(out[a]), a))
  /\ Goto(a, "handle", IF Head(out[a]) = "ToolsListed" THEN <<"ToolsListed">> ELSE <<>>)
  /\ UNCHANGED << pure, shared, ids, env, shutdown_rx, blocks, endpoint_received,
                  initialized, req_id, init_id, consumer >>

\* The loop is done with the block in hand and goes on to the next one.
NextBlock(a) ==
  /\ Goto(a, "block", <<>>)
  /\ req_id' = [req_id EXCEPT ![a] = 0]
  /\ UNCHANGED << pure, shared, ids, channel, env, shutdown_rx, blocks, endpoint_received,
                  initialized, init_id, out, consumer >>

HandleReturn(a) ==
  /\ pc[a] = "handle"
  /\ out[a] = <<>>
  /\ NextBlock(a)

EndpointStoredDebug(a) ==
  /\ pc[a] = "endpoint_stored"
  /\ Emit(a, "Debug", "send_initialize")

\* --------------------------------------------------- send_initialize
\* after the sleep: let id = next_id.fetch_add(1, ..)
SendInitializeId(a) ==
  /\ pc[a] = "send_initialize"
  /\ req_id' = [req_id EXCEPT ![a] = next_id]
  /\ init_id' = [init_id EXCEPT ![a] = next_id]
  /\ Issue
  /\ Goto(a, "initialize_debug", <<>>)
  /\ UNCHANGED << pure, shared, channel, env, shutdown_rx, blocks, endpoint_received,
                  initialized, out, consumer >>

SendInitializeDebug(a) ==
  /\ pc[a] = "initialize_debug"
  /\ Emit(a, "Debug", "initialize_post")

\* What send().await of a POST returns: Ok(response) or Err(e).
PostOutcomes == {"Ok", "Err"}

\* let _ = client.post(&full_url)...send().await: the outcome r is bound to
\* `_` and dropped, whichever it is; then continue
SendInitializePost(a, r) ==
  /\ pc[a] = "initialize_post"
  /\ r \in PostOutcomes
  /\ trace' = [trace EXCEPT ![a] = Append(@, "initialize_post")]
  /\ pc' = [pc EXCEPT ![a] = "block"]
  /\ req_id' = [req_id EXCEPT ![a] = 0]
  /\ UNCHANGED << pure, shared, ids, channel, env, shutdown_rx, blocks, endpoint_received,
                  initialized, init_id, out, consumer >>

\* ---------------------------------------------------- auto_load_tools
InitializedMessage(a) ==
  /\ pc[a] = "initialized"
  /\ Emit(a, "Message", "auto_load_tools")

\* after the sleep: no endpoint is stored, nothing is sent; then continue
AutoLoadNoEndpoint(a) ==
  /\ pc[a] = "auto_load_tools"
  /\ session_endpoint = NoEp
  /\ NextBlock(a)

\* after the sleep: if let Some(endpoint) = ep { let id = fetch_add ...
AutoLoadId(a) ==
  /\ pc[a] = "auto_load_tools"
  /\ session_endpoint # NoEp
  /\ req_id' = [req_id EXCEPT ![a] = next_id]
  /\ Issue
  /\ Goto(a, "auto_debug", <<>>)
  /\ UNCHANGED << pure, shared, channel, env, shutdown_rx, blocks, endpoint_received,
                  initialized, init_id, out, consumer >>

AutoLoadDebug(a) ==
  /\ pc[a] = "auto_debug"
  /\ Emit(a, "Debug", "auto_post")

\* let _ = client.post(&full_url)...send().await of the automatic tools/list:
\* the outcome r is dropped, whichever it is; then continue
AutoLoadPost(a, r) ==
  /\ pc[a] = "auto_post"
  /\ r \in PostOutcomes
  /\ trace' = [trace EXCEPT ![a] = Append(@, "auto_post")]
  /\ pc' = [pc EXCEPT ![a] = "block"]
  /\ req_id' = [req_id EXCEPT ![a] = 0]
  /\ UNCHANGED << pure, shared, ids, channel, env, shutdown_rx, blocks, endpoint_received,
                  initialized, init_id, out, consumer >>

\* ------------------------------ McpClient::list_tools and call_tool
\* Both run on the consumer task, which polls the channel only when idle.
tasks == << env, pc, trace, locals >>

\* let id = self.next_id.fetch_add(1, ..); the two methods differ only in the
\* JSON they build ("tools/list", "tools/call"), which nothing in the client reads.
\* The ghost field attempt is the attempt that is current when the call begins.
StartCall ==
  /\ cpc = "idle"
  /\ calls < MaxCalls
  /\ calls' = calls + 1
  /\ call' = [id |-> next_id, ep |-> NoEp, ep_attempt |-> 0, attempt |-> attempts,
              url |-> << >>]
  /\ Issue
  /\ cpc' = "call_debug"
  /\ UNCHANGED << pure, shared, channel, tasks >>

ListTools == StartCall

CallTool == StartCall

\* the Debug event sent before send_jsonrpc
CallDebug ==
  /\ cpc = "call_debug"
  /\ Send(Ev("Debug", 0))
  /\ cpc' = "send_jsonrpc"
  /\ UNCHANGED << pure, shared, ids, call, calls, tasks >>

\* send_jsonrpc without a base url: Err("No base URL")
SendJsonrpcNoBase ==
  /\ cpc = "send_jsonrpc"
  /\ base_url = NoEp
  /\ cpc' = "call_error"
  /\ UNCHANGED << pure, shared, ids, channel, call, calls, tasks >>

\* send_jsonrpc reads the session endpoint under its lock (ghost: who wrote it)
SendJsonrpcEndpoint ==
  /\ cpc = "send_jsonrpc"
  /\ base_url # NoEp
  /\ call' = [call EXCEPT !.ep = session_endpoint, !.ep_attempt = ep_attempt]
  /\ cpc' = IF session_endpoint = NoEp THEN "no_endpoint" ELSE "register"
  /\ UNCHANGED << pure, shared, ids, channel, calls, tasks >>

\* None: the Debug event "No session endpoint, using base URL for request"
SendJsonrpcNoEndpointDebug ==
  /\ cpc = "no_endpoint"
  /\ Send(Ev("Debug", 0))
  /\ cpc' = "register"
  /\ UNCHANGED << pure, shared, ids, call, calls, tasks >>

\* let url = ..; self.pending.lock().await.insert(id, tx)
SendJsonrpcRegister ==
  /\ cpc = "register"
  /\ call' = [call EXCEPT !.url = PostUrl(base_url, call.ep)]
  /\ pending' = pending \cup {call.id}
  /\ cpc' = "post"
  /\ UNCHANGED << pure, base_url, session_endpoint, ep_attempt, sse_shutdown, ids, channel,
                  calls, tasks >>

\* the POST to call.url: accepted, refused with a status (its body read or not),
\* or failed
SendJsonrpcPost ==
  /\ cpc = "post"
  /\ \/ cpc' = "idle" /\ call' = NoCall
     \/ cpc' \in {"error_body", "call_error"} /\ call' = call
  /\ UNCHANGED << pure, shared, ids, channel, calls, tasks >>

SendJsonrpcErrorBodyDebug ==
  /\ cpc = "error_body"
  /\ Send(Ev("Debug", 0))
  /\ cpc' = "call_error"
  /\ UNCHANGED << pure, shared, ids, call, calls, tasks >>

\* an error path that also takes the request's entry out of the table
CallErrorDropsEntry ==
  /\ cpc = "call_error"
  /\ Send(Ev("Error", 0))
  /\ cpc' = "idle"
  /\ call' = NoCall
  /\ pending' = pending \ {call.id}
  /\ UNCHANGED << pure, base_url, session_endpoint, ep_attempt, sse_shutdown, ids, calls, tasks >>

\* if let Err(e) = self.send_jsonrpc(..): the Error event, then the call returns
CallError ==
  /\ cpc = "call_error"
  /\ Send(Ev("Error", 0))
  /\ cpc' = "idle"
  /\ call' = NoCall
  /\ UNCHANGED << pure, shared, ids, calls, tasks >>

\* ------------------------------------------------- App::handle_event
\* Event::Tick: mcp_event_rx.try_recv() takes the oldest event, if any
TryRecv ==
  /\ cpc = "idle"
  /\ channel # <<>>
  /\ channel' = Tail(channel)
  /\ UNCHANGED << pure, shared, ids, consumer, tasks >>

\* --------------------------------------------------------------- Next
Task(a) ==
  \/ ConnectingDebug(a) \/ Get(a) \/ InitialResponseDebug(a)
  \/ HttpConnectFailed(a) \/ ConnectError(a) \/ Connected(a)
  \/ LoopStartedDebug(a)
  \/ SelectShutdown(a) \/ SelectChunk(a) \/ SelectStreamError(a) \/ SelectStreamEnd(a)
  \/ ShutdownDebug(a) \/ ShutdownDisconnected(a) \/ StreamError(a)
  \/ StreamEndedDebug(a) \/ StreamEndedDisconnected(a) \/ TerminatedDebug(a)
  \/ BlocksDone(a)
  \/ \E f \in Frames : BlockEmpty(a, f)
  \/ \E f \in Frames : BlockEndpoint(a, f)
  \/ \E f \in Frames : BlockInitialized(a, f)
  \/ \E f \in Frames : BlockJson(a, f)
  \/ \E f \in Frames : BlockText(a, f)
  \/ HandleSend(a) \/ HandleReturn(a)
  \/ EndpointStoredDebug(a)
  \/ SendInitializeId(a) \/ SendInitializeDebug(a)
  \/ \E r \in PostOutcomes : SendInitializePost(a, r)
  \/ InitializedMessage(a) \/ AutoLoadNoEndpoint(a) \/ AutoLoadId(a)
  \/ AutoLoadDebug(a)
  \/ \E r \in PostOutcomes : AutoLoadPost(a, r)

\* what the consumer task does besides connect
Calls ==
  \/ ListTools \/ CallTool \/ CallDebug
  \/ SendJsonrpcNoBase \/ SendJsonrpcEndpoint \/ SendJsonrpcNoEndpointDebug
  \/ SendJsonrpcRegister \/ SendJsonrpcPost \/ SendJsonrpcErrorBodyDebug
  \/ CallError
  \/ TryRecv

Consumer ==
  \/ \E u \in Urls : Connect(u)
  \/ Calls

Next == Consumer \/ \E a \in Attempts : Task(a)

Spec == Init /\ [][Next]_vars

\* The runs of the program in which connect is called again only while the
\* receive loop of the attempt before is running.
Supersede(url) ==
  /\ sse_shutdown # 0 => InLoop(sse_shutdown)
  /\ Connect(url)

SupersedeNext ==
  \/ \E u \in Urls : Supersede(u)
  \/ Calls
  \/ \E a \in Attempts : Task(a)

SupersedeSpec == Init /\ [][SupersedeNext]_vars

\* ---------------------------- handle_json_rpc_event: a result's lines
\* The Message events the classifier sends for one result value that is not a
\* tools list.  A value is given by the branch it takes (a generic result, or a
\* content array with one text item whose text parses as JSON or does not) and
\* by the number of lines of its text: format_json_safely(..).lines() or
\* text.lines().  Line i of the text is Line(i).
MaxLines == 203       \* lines of text a result value has at most

\* the literal 200 of `all_lines.len() > 200` and `.take(200)`
ShownLines == 200

Kinds   == {"generic", "content_json", "content_text"}
Results == [kind : Kinds, lines : 0..MaxLines]

\* McpClientEvent::Message(..), by what its text is
Line(i) == [text |-> "line", shown |-> i, total |-> 0]
Header  == [text |-> "Tool result:", shown |-> 0, total |-> 0]
Blank   == [text |-> "", shown |-> 0, total |-> 0]
\* "Response truncated: showing 200 of {} lines" and
\* "Output truncated: {} of {} lines shown"
Notice(t, shown, total) == [text |-> t, shown |-> shown, total |-> total]

\* formatted.lines().collect() of a text of m lines
all_lines(m) == [i \in 1..m |-> Line(i)]

\* a take that lets one line too many through
TakeOneMore(s, n) == SubSeq(s, 1, IF n + 1 < Len(s) THEN n + 1 ELSE Len(s))

\* s.iter().take(n)
Take(s, n) == SubSeq(s, 1, IF n < Len(s) THEN n ELSE Len(s))

\* the generic result, and the text of a content item that parses as JSON
response_lines(l) ==
  IF Len(l) > ShownLines
  THEN Take(l, ShownLines)
         \o << Blank, Notice("Response truncated", ShownLines, Len(l)) >>
  ELSE l

\* the text of a content item that is not JSON
output_lines(l) ==
  IF Len(l) > ShownLines
  THEN Take(l, ShownLines) \o << Notice("Output truncated", ShownLines, Len(l)) >>
  ELSE l

\* the Message events sent for the result value r, in order
result_messages(r) ==
  CASE r.kind = "content_json" -> << Header >> \o response_lines(all_lines(r.lines))
    [] r.kind = "content_text" -> << Header >> \o output_lines(all_lines(r.lines))
    [] r.kind = "generic"      -> response_lines(all_lines(r.lines))

FormatterInit ==
  /\ ClientInit
  /\ AppIdle
  /\ WrapperIdle
  /\ CompleterIdle
  /\ EditorIdle
  /\ OutputLogIdle
  /\ JoinerIdle
  /\ ParserIdle
  /\ LocksIdle
  /\ result \in Results
  /\ messages = <<>>
  /\ fpc = "idle"

\* handle_json_rpc_event on the value in hand, to its return
FormatResult ==
  /\ fpc = "idle"
  /\ messages' = result_messages(result)
  /\ fpc' = "done"
  /\ UNCHANGED << client, application, wrapper, completer, editor, output_log, joiner, result, parser, locks >>

FormatterNext == FormatResult

FormatterSpec == FormatterInit /\ [][FormatterNext]_vars

\* ------------------------------ sse_listener_loop: chunks to frames
\* What the loop does with the bytes of the response body: each chunk is
\* decoded on its own and appended to buf, and every complete block of buf is
\* parsed into an event type and a data.  A byte is a one-character string for
\* ASCII, and "C3", "A9" for the two bytes of U+00E9; a character is the same
\* string for ASCII, "U+00E9", or "U+FFFD" for the replacement character.  The
\* bodies hold no carriage return.
MaxStreamLines == 4   \* lines a response body has at most
MaxChunks      == 2   \* chunks a response body arrives in at most

NL == "\n"

\* the lines a body is made of; each is followed by a line feed
StreamLines ==
  { << "e", "v", "e", "n", "t", ":", " ", "e" >>,
    << "d", "a", "t", "a", ":", " ", "x" >>,
    << "d", "a", "t", "a", ":", "C3", "A9" >>,
    << >> }

RECURSIVE Concat(_)
Concat(ls) == IF ls = <<>> THEN <<>> ELSE Head(ls) \o << NL >> \o Concat(Tail(ls))

Streams == {Concat(ls) : ls \in UNION {[1..n -> StreamLines] : n \in 0..MaxStreamLines}}

\* String::from_utf8_lossy(b): a well-formed sequence is its character; a lead
\* byte without its continuation byte, and a continuation byte on its own, are
\* each replaced by U+FFFD
RECURSIVE from_utf8_lossy(_)
from_utf8_lossy(b) ==
  IF b = <<>> THEN <<>>
  ELSE IF Head(b) = "C3"
       THEN IF Len(b) >= 2 /\ b[2] = "A9"
            THEN << "U+00E9" >> \o from_utf8_lossy(SubSeq(b, 3, Len(b)))
            ELSE << "U+FFFD" >> \o from_utf8_lossy(Tail(b))
       ELSE IF Head(b) = "A9"
            THEN << "U+FFFD" >> \o from_utf8_lossy(Tail(b))
            ELSE << Head(b) >> \o from_utf8_lossy(Tail(b))

\* s.lines(): the pieces between line feeds; a final line feed ends the last line
RECURSIVE lines(_)
lines(s) ==
  IF s = <<>> THEN <<>>
  ELSE LET i == Find(s, << NL >>)
       IN IF i = -1 THEN << s >>
          ELSE << Slice(s, 0, i) >> \o lines(SliceFrom(s, i + 1))

IsWhitespace(c) == c \in {" ", NL}

\* s.trim()
RECURSIVE trim(_)
trim(s) ==
  IF s = <<>> THEN s
  ELSE IF IsWhitespace(Head(s)) THEN trim(Tail(s))
  ELSE IF IsWhitespace(s[Len(s)]) THEN trim(SubSeq(s, 1, Len(s) - 1))
  ELSE s

\* the `for line in block.lines()` loop from line i on, with the event_type
\* and data it has so far
RECURSIVE block_fields(_, _, _, _)
block_fields(ls, i, event_type, data) ==
  IF i > Len(ls) THEN [event_type |-> event_type, data |-> data]
  ELSE IF StartsWith(ls[i], << "e", "v", "e", "n", "t", ":" >>)
       THEN block_fields(ls, i + 1, trim(SliceFrom(ls[i], 6)), data)
  ELSE IF StartsWith(ls[i], << "d", "a", "t", "a", ":" >>)
       THEN block_fields(ls, i + 1, event_type,
                         (IF data # <<>> THEN data \o << NL >> ELSE data)
                           \o trim(SliceFrom(ls[i], 5)))
  ELSE block_fields(ls, i + 1, event_type, data)

\* the `while let Some(split) = buf.find("\n\n")` loop on the buffer b: the
\* frames of its complete blocks (a block without data is skipped) and the
\* buffer that is left
RECURSIVE take_blocks(_)
take_blocks(b) ==
  LET split == Find(b, << NL, NL >>)
  IN IF split = -1 THEN [buf |-> b, frames |-> <<>>]
     ELSE LET block == Slice(b, 0, split)
              f     == block_fields(lines(block), 1, <<>>, <<>>)
              r     == take_blocks(SliceFrom(b, split + 2))
          IN [buf    |-> r.buf,
              frames |-> (IF f.data = <<>> THEN <<>> ELSE << f >>) \o r.frames]

ParserInit ==
  /\ ClientInit
  /\ AppIdle
  /\ WrapperIdle
  /\ CompleterIdle
  /\ EditorIdle
  /\ OutputLogIdle
  /\ JoinerIdle
  /\ FormatterIdle
  /\ LocksIdle
  /\ bytes \in Streams
  /\ unread = bytes
  /\ nchunks = 0
  /\ buf = <<>>
  /\ extracted = <<>>

\* item = stream.next() is Some(Ok(chunk)) with a chunk of n bytes; the last
\* chunk the body may arrive in takes all that is left
StreamChunk(n) ==
  /\ nchunks + 1 < MaxChunks \/ n = Len(unread)
  /\ LET chunk == SubSeq(unread, 1, n)
         txt   == from_utf8_lossy(chunk)
         r     == take_blocks(buf \o txt)
     IN /\ buf' = r.buf
        /\ extracted' = extracted \o r.frames
  /\ unread' = SubSeq(unread, n + 1, Len(unread))
  /\ nchunks' = nchunks + 1
  /\ UNCHANGED << client, application, wrapper, completer, editor, output_log, joiner, formatter, locks, bytes >>

ParserNext == \E n \in 1..Len(unread) : StreamChunk(n)

ParserSpec == ParserInit /\ [][ParserNext]_vars

\* ------------------------------- the mutexes of McpClient, step by step
\* The code that uses the session-endpoint mutex and the correlation-table
\* mutex, one operation per step: what a task does next at each point (take a
\* guard, drop it, send an event, POST, sleep, or go on without awaiting) and
\* the points it can be at afterwards.  `lock().await` waits while another task
\* holds the guard.
Op(op, lock, next) == [op |-> op, lock |-> lock, next |-> next]

Code ==
  [p \in {"sj_call", "sj_ep_lock", "sj_ep_clone", "sj_no_ep_debug", "sj_pending_lock",
          "sj_insert", "sj_post", "sj_error_body",
          "lp_block", "lp_store_lock", "lp_store", "lp_stored_debug",
          "si_sleep", "si_debug", "si_post",
          "lp_init_msg", "al_sleep", "al_lock", "al_clone", "al_debug", "al_post",
          "lp_handle"} |->
     CASE p = "sj_call"         -> Op("go", "", {"sj_ep_lock"})                          \* 200-208
       [] p = "sj_ep_lock"      -> Op("acquire", "session_endpoint", {"sj_ep_clone"})    \* 211
       [] p = "sj_ep_clone"     -> Op("release", "session_endpoint",                     \* 212-213
                                      {"sj_no_ep_debug", "sj_pending_lock"})
       [] p = "sj_no_ep_debug"  -> Op("send", "", {"sj_pending_lock"})                   \* 218-220
       [] p = "sj_pending_lock" -> Op("acquire", "pending", {"sj_insert"})               \* 233
       [] p = "sj_insert"       -> Op("release", "pending", {"sj_post"})                 \* 233
       [] p = "sj_post"         -> Op("post", "", {"sj_call", "sj_error_body"})          \* 236-241
       [] p = "sj_error_body"   -> Op("send", "", {"sj_call"})                           \* 250-252
       [] p = "lp_block"        -> Op("go", "", {"lp_store_lock", "lp_init_msg",         \* 306-358
                                                 "lp_handle"})
       [] p = "lp_store_lock"   -> Op("acquire", "session_endpoint", {"lp_store"})       \* 331
       [] p = "lp_store"        -> Op("release", "session_endpoint", {"lp_stored_debug"}) \* 332-333
       [] p = "lp_stored_debug" -> Op("send", "", {"si_sleep"})                          \* 336-338
       [] p = "si_sleep"        -> Op("sleep", "", {"si_debug"})                         \* 467
       [] p = "si_debug"        -> Op("send", "", {"si_post"})                           \* 487-489
       [] p = "si_post"         -> Op("post", "", {"lp_block"})                          \* 491-495
       [] p = "lp_init_msg"     -> Op("send", "", {"al_sleep"})                          \* 359-361
       [] p = "al_sleep"        -> Op("sleep", "", {"al_lock"})                          \* 425
       [] p = "al_lock"         -> Op("acquire", "session_endpoint", {"al_clone"})       \* 428
       [] p = "al_clone"        -> Op("release", "session_endpoint",                     \* 429-432
                                      {"al_debug", "lp_block"})
       [] p = "al_debug"        -> Op("send", "", {"al_post"})                           \* 443-445
       [] p = "al_post"         -> Op("post", "", {"lp_block"})                          \* 447-452
       [] p = "lp_handle"       -> Op("send", "", {"lp_block"})]                         \* 376-386

\* a guard that is not dropped at the end of its block or statement
AfterOpGuardKept(c, t) ==
  IF c.op = "acquire" THEN [held EXCEPT ![c.lock] = t] ELSE held

\* the guards after task t has done the operation c
AfterOp(c, t) ==
  CASE c.op = "acquire" -> [held EXCEPT ![c.lock] = t]
    [] c.op = "release" -> [held EXCEPT ![c.lock] = Free]
    [] OTHER            -> held

LocksInit ==
  /\ ClientInit
  /\ AppIdle
  /\ WrapperIdle
  /\ CompleterIdle
  /\ EditorIdle
  /\ OutputLogIdle
  /\ JoinerIdle
  /\ FormatterIdle
  /\ ParserIdle
  /\ point = [t \in LockTasks |-> IF t = 0 THEN "sj_call" ELSE "lp_block"]
  /\ held = [l \in LockNames |-> Free]

\* task t does the operation it is at
LockStep(t) ==
  LET c == Code[point[t]]
  IN /\ c.op = "acquire" => held[c.lock] = Free
     /\ held' = AfterOp(c, t)
     /\ \E q \in c.next : point' = [point EXCEPT ![t] = q]
     /\ UNCHANGED << client, application, wrapper, completer, editor, output_log, joiner, formatter, parser >>

LocksNext == \E t \in LockTasks : LockStep(t)

LocksSpec == LocksInit /\ [][LocksNext]_vars

\* ------------------------------------------------- join_url, applied
\* join_url on bases given by their parts (a base without a scheme is a base
\* without "://") and on short endpoints.
MaxEndpointLen == 4   \* characters an endpoint has at most

BaseParts ==
  [scheme : { << >>, << "h", "t", "t", "p" >>, << "w", "s" >> },
   host   : { << "h" >> },
   port   : { << >>, << ":", "8" >> },
   path   : { << >>, << "/" >>, << "/", "s" >>, << "/", "s", "/" >> }]

\* the base as the string join_url is given
BaseString(b) ==
  (IF b.scheme = << >> THEN << >> ELSE b.scheme \o << ":", "/", "/" >>)
    \o b.host \o b.port \o b.path

Endpoints ==
  UNION {[1..n -> {"/", "e", ":"}] : n \in 0..MaxEndpointLen}
    \cup { << "h", "t", "t", "p", ":", "/", "/", "e" >>,
           << "h", "t", "t", "p", "s", ":", "/", "/", "e" >> }

JoinerInit ==
  /\ ClientInit
  /\ AppIdle
  /\ WrapperIdle
  /\ CompleterIdle
  /\ EditorIdle
  /\ OutputLogIdle
  /\ FormatterIdle
  /\ ParserIdle
  /\ LocksIdle
  /\ url_args \in [base : BaseParts, endpoint : Endpoints]
  /\ full_url = << >>

JoinUrl ==
  /\ full_url = << >>
  /\ full_url' = join_url(BaseString(url_args.base), url_args.endpoint)
  /\ UNCHANGED << client, application, wrapper, completer, editor, output_log, formatter, parser, locks, url_args >>

JoinerSpec == JoinerInit /\ [][JoinUrl]_vars

\* ------------------------------------------------ state.rs: OutputLog
\* The log under with_message.  The message of the n-th call is n.
MaxAppends == 1003    \* with_message calls made on one log

\* const MAX_LOG_LINES: usize = 1000
MAX_LOG_LINES == 1000

\* a log that keeps its oldest lines
with_message_keeps_oldest(ls, msg) ==
  LET pushed == Append(ls, msg)
  IN IF Len(pushed) > MAX_LOG_LINES THEN SubSeq(pushed, 1, MAX_LOG_LINES) ELSE pushed

\* OutputLog::with_message: push, then drain(0..(len - MAX_LOG_LINES))
with_message(ls, msg) ==
  LET pushed == Append(ls, msg)
  IN IF Len(pushed) > MAX_LOG_LINES
     THEN SubSeq(pushed, Len(pushed) - MAX_LOG_LINES + 1, Len(pushed))
     ELSE pushed

OutputLogInit ==
  /\ ClientInit
  /\ AppIdle
  /\ WrapperIdle
  /\ CompleterIdle
  /\ EditorIdle
  /\ FormatterIdle
  /\ ParserIdle
  /\ LocksIdle
  /\ JoinerIdle
  /\ OutputLogIdle

WithMessage ==
  /\ appended < MaxAppends
  /\ log_lines' = with_message(log_lines, appended + 1)
  /\ appended' = appended + 1
  /\ UNCHANGED << client, application, wrapper, completer, editor, formatter, parser, locks, joiner >>

OutputLogSpec == OutputLogInit /\ [][WithMessage]_vars

\* --------------------------------------------------- state.rs: Buffer
\* A Buffer under the keys of the input line.  content is a String: its bytes,
\* with "a" and "b" for one-byte characters and "C3", "A9" for the two bytes of
\* U+00E9.  cursor is a byte offset.  A call that panics leaves Panicked.
MaxBufferBytes == 4   \* bytes the content has at most

\* c.encode_utf8
Utf8 == [c \in {"a", "b", "U+00E9"} |->
           IF c = "U+00E9" THEN << "C3", "A9" >> ELSE << c >>]

Panicked == [content |-> << >>, cursor |-> -1]

\* str::is_char_boundary(idx)
is_char_boundary(s, idx) ==
  \/ idx = 0
  \/ idx = Len(s)
  \/ idx < Len(s) /\ s[idx + 1] # "A9"

\* Buffer::insert_char: String::insert(cursor, c) asserts the char boundary
insert_char(b, c) ==
  IF ~is_char_boundary(b.content, b.cursor) THEN Panicked
  ELSE [content |-> Slice(b.content, 0, b.cursor) \o Utf8[c]
                      \o SliceFrom(b.content, b.cursor),
        cursor  |-> b.cursor + 1]

\* Buffer::delete_char: String::remove(cursor - 1) takes out the character that
\* starts at that byte, and panics if none starts there
delete_char(b) ==
  IF b.cursor > 0 /\ b.content # << >>
  THEN LET idx == b.cursor - 1
       IN IF idx >= Len(b.content) \/ ~is_char_boundary(b.content, idx) THEN Panicked
          ELSE LET w == IF b.content[idx + 1] = "C3" THEN 2 ELSE 1
               IN [content |-> Slice(b.content, 0, idx) \o SliceFrom(b.content, idx + w),
                   cursor  |-> b.cursor - 1]
  ELSE b

EditorInit ==
  /\ ClientInit
  /\ AppIdle
  /\ WrapperIdle
  /\ CompleterIdle
  /\ FormatterIdle
  /\ ParserIdle
  /\ LocksIdle
  /\ JoinerIdle
  /\ OutputLogIdle
  /\ EditorIdle

\* the buffer becomes b
Edit(b) ==
  /\ buffer # Panicked
  /\ buffer' = b
  /\ UNCHANGED << client, application, wrapper, completer, formatter, parser, locks, joiner, output_log >>

InsertChar(c) ==
  /\ Len(buffer.content) + Len(Utf8[c]) <= MaxBufferBytes
  /\ Edit(insert_char(buffer, c))

DeleteChar == Edit(delete_char(buffer))

\* cursor.saturating_sub(1)
MoveLeft == Edit([buffer EXCEPT !.cursor = IF @ > 0 THEN @ - 1 ELSE 0])

\* a move_right that does not look at the length
MoveRightUnchecked == Edit([buffer EXCEPT !.cursor = @ + 1])

\* Buffer::move_right: if self.cursor < self.content.len() { self.cursor += 1 }
MoveRight ==
  Edit([buffer EXCEPT !.cursor = IF @ < Len(buffer.content) THEN @ + 1 ELSE @])

MoveStart == Edit([buffer EXCEPT !.cursor = 0])

MoveEnd == Edit([buffer EXCEPT !.cursor = Len(buffer.content)])

Clear == Edit([content |-> << >>, cursor |-> 0])

EditorNext ==
  \/ \E c \in DOMAIN Utf8 : InsertChar(c)
  \/ DeleteChar
  \/ MoveLeft
  \/ MoveRight
  \/ MoveStart
  \/ MoveEnd
  \/ Clear

EditorSpec == EditorInit /\ [][EditorNext]_vars

\* ------------------------------------- completion.rs: CompletionResult
\* A CompletionResult under next and prev.  The candidates are given by their
\* number; every constructor sets selected to 0.
MaxCandidates == 15   \* candidates a completion has at most

\* a next that stops at the last candidate
next_saturating(r) ==
  IF r.candidates # 0 /\ r.selected + 1 < r.candidates
  THEN [r EXCEPT !.selected = @ + 1]
  ELSE r

\* CompletionResult::next
next(r) ==
  IF r.candidates # 0
  THEN [r EXCEPT !.selected = (@ + 1) % r.candidates]
  ELSE r

\* CompletionResult::prev
prev(r) ==
  IF r.candidates # 0
  THEN [r EXCEPT !.selected = IF @ = 0 THEN r.candidates - 1 ELSE @ - 1]
  ELSE r

CompleterInit ==
  /\ ClientInit
  /\ AppIdle
  /\ WrapperIdle
  /\ FormatterIdle
  /\ ParserIdle
  /\ LocksIdle
  /\ JoinerIdle
  /\ OutputLogIdle
  /\ EditorIdle
  /\ completion \in [candidates : 0..MaxCandidates, selected : {0}]

SelectNext ==
  /\ completion' = next(completion)
  /\ UNCHANGED << client, application, wrapper, formatter, parser, locks, joiner, output_log, editor >>

SelectPrev ==
  /\ completion' = prev(completion)
  /\ UNCHANGED << client, application, wrapper, formatter, parser, locks, joiner, output_log, editor >>

CompleterSpec == CompleterInit /\ [][SelectNext \/ SelectPrev]_vars

\* ------------------------------------------ tool_formatter.rs: wrap_text
\* wrap_text on texts of word characters ("x") and spaces.  A String is the
\* sequence of its bytes, len() their number.
MaxTextLen == 6   \* bytes the text has at most
MaxWidth   == 5   \* the largest width asked for
MaxIndent  == 3   \* the largest indent asked for

Texts == UNION {[1..n -> {"x", " "}] : n \in 0..MaxTextLen}

RECURSIVE split_whitespace(_, _)
\* text.split_whitespace(): the maximal runs of bytes that are not whitespace,
\* in order; cur is the run being read
split_whitespace(text, cur) ==
  LET done == IF cur = <<>> THEN <<>> ELSE <<cur>>
  IN IF text = <<>> THEN done
     ELSE IF Head(text) = " " THEN done \o split_whitespace(Tail(text), <<>>)
     ELSE split_whitespace(Tail(text), Append(cur, Head(text)))

RECURSIVE wrap_words(_, _, _, _, _)
\* the loop of wrap_text over the words left, and the push after it
wrap_words(words, current_line, pushed, indent_str, effective_width) ==
  IF words = <<>>
  THEN IF current_line # <<>> THEN Append(pushed, indent_str \o current_line)
       ELSE pushed
  ELSE LET word == Head(words)
       IN IF current_line = <<>>
          THEN wrap_words(Tail(words), word, pushed, indent_str, effective_width)
          ELSE IF Len(current_line) + Len(word) + 1 <= effective_width
          THEN wrap_words(Tail(words), current_line \o <<" ">> \o word, pushed,
                          indent_str, effective_width)
          ELSE wrap_words(Tail(words), word,
                          Append(pushed, indent_str \o current_line),
                          indent_str, effective_width)

\* wrap_text(text, width, indent); effective_width is width.saturating_sub(indent)
wrap_text(text, width, indent) ==
  wrap_words(split_whitespace(text, <<>>), <<>>, <<>>,
             [i \in 1..indent |-> " "],
             IF width > indent THEN width - indent ELSE 0)

WrapperInit ==
  /\ ClientInit
  /\ AppIdle
  /\ FormatterIdle
  /\ ParserIdle
  /\ LocksIdle
  /\ JoinerIdle
  /\ OutputLogIdle
  /\ EditorIdle
  /\ CompleterIdle
  /\ wrapping \in [text : Texts, width : 0..MaxWidth, indent : 0..MaxIndent,
                   wrapped : {<<>>}, returned : {FALSE}]

WrapText ==
  /\ ~wrapping.returned
  /\ wrapping' = [wrapping EXCEPT
                    !.wrapped = wrap_text(wrapping.text, wrapping.width, wrapping.indent),
                    !.returned = TRUE]
  /\ UNCHANGED << client, application, formatter, parser, locks, joiner, output_log, editor, completer >>

WrapperSpec == WrapperInit /\ [][WrapText]_vars

\* ------------------------------------------------------ app.rs: App
\* The App under key events, ticks that take an event of the client from the
\* channel, and resizes.  status, mouse_enabled and the text of command_buffer
\* are not kept: the Enter key of COMMAND mode carries the Command its text
\* parses to.  Tools and servers are given by their names.
MaxAppLines   == 16   \* lines the log is let grow to
MaxInputBytes == 1    \* bytes the input line is let grow to

Configs   == {<<>>, <<"s1", "s2">>}
ToolLists == {<<>>, <<"t1">>, <<"t2">>, <<"t1", "t2">>}
Heights   == {3, 6}
Digits    == [c \in {"1", "2", "3"} |-> IF c = "1" THEN 1 ELSE IF c = "2" THEN 2 ELSE 3]
CharKeys  == {"i", ":", "q", "k", "j", "w", "l", "a"} \cup DOMAIN Digits
Codes     == CharKeys \cup {"Esc", "Up", "Down", "Enter", "Backspace", "Left", "Right",
                            "Home", "End", "PageUp", "PageDown"}
Commands  ==
  [op : {"Quit", "Clear", "Help", "McpList", "McpTools", "McpStatus", "Mouse", "Err"},
   arg : {<<>>}]
  \cup [op : {"Echo"}, arg : {<<1>>, <<2>>}]
  \cup [op : {"McpConnect"}, arg : {<<>>, <<"s1">>, <<"s3">>}]
  \cup [op : {"McpRun"}, arg : {<<>>, <<"t1">>, <<"t2">>}]
McpEvents ==
  [kind : {"Connected", "Disconnected", "Message", "Error", "Debug"}, tools : {<<>>}]
  \cup [kind : {"ToolsListed"}, tools : ToolLists]

\* u16::saturating_sub
saturating_sub(x, y) == IF x > y THEN x - y ELSE 0

view_height(s) == saturating_sub(s.output_height, 2)

max_scroll_offset(s) == saturating_sub(s.output, view_height(s))

scroll_to_bottom(s) ==
  IF s.autoscroll THEN [s EXCEPT !.scroll_offset = max_scroll_offset(s)] ELSE s

scroll_up(s) ==
  [s EXCEPT !.autoscroll = FALSE, !.scroll_offset = saturating_sub(@, 1)]

scroll_down(s) ==
  LET max_offset == max_scroll_offset(s)
      offset == IF s.scroll_offset < max_offset THEN s.scroll_offset + 1
                ELSE s.scroll_offset
  IN [s EXCEPT !.scroll_offset = offset, !.autoscroll = (offset >= max_offset)]

jump_to_bottom(s) == scroll_to_bottom([s EXCEPT !.autoscroll = TRUE])

set_output_height(s, height) == scroll_to_bottom([s EXCEPT !.output_height = height])

\* k calls of OutputLog::with_message, one after the other
with_messages(s, k) ==
  [s EXCEPT !.output = IF @ + k > MAX_LOG_LINES THEN MAX_LOG_LINES ELSE @ + k]

\* self.output = OutputLog::new()
output_cleared(s) == [s EXCEPT !.output = 0]

\* App::handle_mcp_event
handle_mcp_event(s, event) ==
  CASE event.kind = "Connected" -> s
    [] event.kind = "Disconnected" -> [s EXCEPT !.available_tools = <<>>]
    [] event.kind = "ToolsListed" ->
         scroll_to_bottom(with_messages([s EXCEPT !.available_tools = event.tools],
                                        3 + Len(event.tools)))
    [] OTHER -> scroll_to_bottom(with_messages(s, 1))

\* a Down key that does not look at the length of the list
selection_down_unchecked(selected, len) == selected + 1

\* if selection.selected < selection.tools.len() - 1 { selection.selected += 1 }
selection_down(selected, len) == IF selected < len - 1 THEN selected + 1 ELSE selected

\* The keys of a selection, handle_tool_selection_key and
\* handle_server_selection_key alike: field is the selection.  The result is
\* the App and the name that Enter or a digit has chosen, if any.  An index out
\* of the list and len() - 1 of an empty list panic.
selection_key(s, field, code) ==
  LET sel      == s[field][1]
      len      == Len(sel.list)
      stays(t) == [app |-> t, chosen |-> <<>>]
      closed(name) == [app |-> [s EXCEPT ![field] = <<>>], chosen |-> <<name>>]
  IN CASE code = "Esc" -> stays([s EXCEPT ![field] = <<>>])
       [] code \in {"Up", "k"} ->
            stays([s EXCEPT ![field] = << [sel EXCEPT !.selected = saturating_sub(@, 1)] >>])
       [] code \in {"Down", "j"} ->
            IF len = 0 THEN stays([s EXCEPT !.panicked = TRUE])
            ELSE stays([s EXCEPT ![field] =
                          << [sel EXCEPT !.selected = selection_down(@, len)] >>])
       [] code = "Enter" ->
            IF sel.selected >= len THEN stays([s EXCEPT !.panicked = TRUE])
            ELSE closed(sel.list[sel.selected + 1])
       [] code \in DOMAIN Digits ->
            IF Digits[code] <= len THEN closed(sel.list[Digits[code]])
            ELSE stays(s)
       [] OTHER -> stays(s)

\* self.mcp_client.call_tool(tool.name.clone(), json!({}))
call_tool(s, name) == [s EXCEPT !.issued = <<"call_tool", name>>]

\* config.mcp_servers.iter().find(|s| s.name == name), then mcp_client.connect
connect_server(s, name) ==
  IF \E i \in DOMAIN s.config : s.config[i] = name
  THEN [s EXCEPT !.issued = <<"connect", name>>]
  ELSE s

handle_tool_selection_key(s, code) ==
  LET r == selection_key(s, "tool_selection", code)
  IN IF r.chosen = <<>> THEN r.app ELSE call_tool(r.app, r.chosen[1])

handle_server_selection_key(s, code) ==
  LET r == selection_key(s, "server_selection", code)
  IN IF r.chosen = <<>> THEN r.app ELSE connect_server(r.app, r.chosen[1])

handle_normal_key(s, code) ==
  CASE code = "i" -> [s EXCEPT !.mode = "Insert"]
    [] code = ":" -> [s EXCEPT !.mode = "Command"]
    [] code = "q" -> [s EXCEPT !.quit = TRUE]
    [] code = "PageUp" -> scroll_up(s)
    [] code = "PageDown" -> scroll_down(s)
    [] code = "End" -> jump_to_bottom(s)
    [] OTHER -> s

\* the bytes of every character typed are those of "a"
handle_insert_key(s, code) ==
  LET b == s.input_buffer
  IN CASE code = "Esc" -> [s EXCEPT !.mode = "Normal"]
       [] code = "Enter" ->
            IF b.content # <<>>
            THEN [scroll_to_bottom(with_messages(s, 2))
                    EXCEPT !.input_buffer = [content |-> <<>>, cursor |-> 0]]
            ELSE s
       [] code \in CharKeys -> [s EXCEPT !.input_buffer = insert_char(b, "a")]
       [] code = "Backspace" -> [s EXCEPT !.input_buffer = delete_char(b)]
       [] code = "Left" -> [s EXCEPT !.input_buffer.cursor = saturating_sub(@, 1)]
       [] code = "Right" ->
            [s EXCEPT !.input_buffer.cursor = IF @ < Len(b.content) THEN @ + 1 ELSE @]
       [] code = "Home" -> [s EXCEPT !.input_buffer.cursor = 0]
       [] code = "End" -> [s EXCEPT !.input_buffer.cursor = Len(b.content)]
       [] OTHER -> s

\* App::execute_command, on the Command the text parses to
execute_command(s, cmd) ==
  LET servers == Len(s.config)
      tools   == Len(s.available_tools)
  IN CASE cmd.op = "Quit" -> [s EXCEPT !.quit = TRUE]
       [] cmd.op = "Clear" -> scroll_to_bottom(output_cleared(s))
       [] cmd.op = "Echo" -> scroll_to_bottom(with_messages(s, cmd.arg[1]))
       [] cmd.op = "Help" -> scroll_to_bottom(with_messages(s, 14))
       [] cmd.op = "McpConnect" ->
            IF cmd.arg # <<>> THEN connect_server(s, cmd.arg[1])
            ELSE IF servers = 0 THEN scroll_to_bottom(with_messages(s, 1))
            ELSE scroll_to_bottom(
                   [with_messages(s, 1 + servers + 2)
                      EXCEPT !.server_selection = << [list |-> s.config, selected |-> 0] >>])
       [] cmd.op = "McpList" ->
            scroll_to_bottom(with_messages(s, 1 + IF servers = 0 THEN 1 ELSE servers))
       [] cmd.op = "McpTools" ->
            scroll_to_bottom(with_messages(s, IF tools = 0 THEN 2 ELSE 1 + tools + 1))
       [] cmd.op = "McpStatus" ->
            scroll_to_bottom(with_messages(s, 2 + IF tools = 0 THEN 2 ELSE 2 + tools))
       [] cmd.op = "McpRun" ->
            IF tools = 0 THEN scroll_to_bottom(with_messages(s, 1))
            ELSE IF cmd.arg # <<>>
            THEN scroll_to_bottom(
                   IF \E i \in DOMAIN s.available_tools : s.available_tools[i] = cmd.arg[1]
                   THEN call_tool(s, cmd.arg[1]) ELSE s)
            ELSE scroll_to_bottom(
                   [with_messages(s, 1 + tools + 2)
                      EXCEPT !.tool_selection =
                               << [list |-> s.available_tools, selected |-> 0] >>])
       [] cmd.op = "Mouse" -> scroll_to_bottom(with_messages(s, 2))
       [] OTHER -> s

handle_command_key(s, code, cmd) ==
  CASE code = "Esc" -> [s EXCEPT !.mode = "Normal"]
    [] code = "Enter" -> [execute_command(s, cmd) EXCEPT !.mode = "Normal"]
    [] OTHER -> s

handle_ctrl_key(s, code) ==
  CASE code = "q" -> [s EXCEPT !.quit = TRUE]
    [] code = "w" /\ s.mode = "Insert" ->
         [s EXCEPT !.input_buffer = [content |-> <<>>, cursor |-> 0]]
    [] code = "l" -> scroll_to_bottom(output_cleared(s))
    [] OTHER -> s

\* App::handle_key: a tool selection first, a server selection second, the
\* control keys third, the mode last
handle_key(s, code, ctrl, cmd) ==
  IF s.tool_selection # <<>> THEN handle_tool_selection_key(s, code)
  ELSE IF s.server_selection # <<>> THEN handle_server_selection_key(s, code)
  ELSE IF ctrl THEN handle_ctrl_key(s, code)
  ELSE CASE s.mode = "Normal" -> handle_normal_key(s, code)
         [] s.mode = "Insert" -> handle_insert_key(s, code)
         [] OTHER -> handle_command_key(s, code, cmd)

AppInit ==
  /\ ClientInit
  /\ FormatterIdle
  /\ ParserIdle
  /\ LocksIdle
  /\ JoinerIdle
  /\ OutputLogIdle
  /\ EditorIdle
  /\ CompleterIdle
  /\ WrapperIdle
  /\ \E config \in Configs : app = AppNew(config)

\* the main loop takes the next event while the App has not quit; the App
\* becomes s
AppStep(s) ==
  /\ ~app.quit
  /\ ~app.panicked
  /\ s.output <= MaxAppLines
  /\ Len(s.input_buffer.content) <= MaxInputBytes
  /\ app' = s
  /\ UNCHANGED << client, formatter, parser, locks, joiner, output_log, editor, completer,
                  wrapper >>

\* Event::Key
KeyEvent(code, ctrl, cmd) == AppStep(handle_key([app EXCEPT !.issued = <<>>], code, ctrl, cmd))

\* Event::Tick with an event in the channel
TickEvent(event) == AppStep(handle_mcp_event([app EXCEPT !.issued = <<>>], event))

\* the terminal has a new size: main calls set_output_height before it draws
Resize(height) == AppStep(set_output_height([app EXCEPT !.issued = <<>>], height))

\* What the text of command_buffer can parse to when the key is the Enter of
\* COMMAND mode; with any other key the text is not parsed.
Parsed(code, ctrl) ==
  IF /\ app.tool_selection = <<>> /\ app.server_selection = <<>>
     /\ ~ctrl /\ app.mode = "Command" /\ code = "Enter"
  THEN Commands
  ELSE {[op |-> "Err", arg |-> <<>>]}

AppNext ==
  \/ \E code \in Codes, ctrl \in BOOLEAN :
       \E cmd \in Parsed(code, ctrl) : KeyEvent(code, ctrl, cmd)
  \/ \E event \in McpEvents : TickEvent(event)
  \/ \E height \in Heights : Resize(height)

AppSpec == AppInit /\ [][AppNext]_vars

\* ------------------------------------------------------------ helpers
Range(s) == {s[i] : i \in DOMAIN s}
Count(s, x) == Cardinality({i \in DOMAIN s : s[i] = x})
Precedes(s, x, y) == \E i, j \in DOMAIN s : i < j /\ s[i] = x /\ s[j] = y

RECURSIVE Subseq(_, _)
\* xs occurs in s, in order (not necessarily side by side)
Subseq(xs, s) ==
  IF xs = <<>> THEN TRUE
  ELSE IF s = <<>> THEN FALSE
  ELSE IF Head(xs) = Head(s) THEN Subseq(Tail(xs), Tail(s))
  ELSE Subseq(xs, Tail(s))

\* the step in which the task of attempt a ends
Exits(a) == pc[a] # "done" /\ pc'[a] = "done"

\* the positions at which a task waits in event_tx.send(..).await
TaskSends == {"connecting", "status_ok", "status_bad", "http_failed", "connect_error",
              "connected", "loop_started", "shutdown", "shutdown_disconnected",
              "stream_error", "stream_ended", "ended_disconnected", "terminated",
              "endpoint_stored", "initialize_debug", "initialized", "auto_debug"}
Sending(a) == pc[a] \in TaskSends \/ (pc[a] = "handle" /\ out[a] # <<>>)

\* the positions at which list_tools / call_tool wait in event_tx.send(..).await
CallSends == {"call_debug", "no_endpoint", "error_body", "call_error"}

\* the loop parses a response with id k and body b out of the block in hand
TakesResponse(a, k, b) ==
  BlockInitialized(a, Response(k, b)) \/ BlockJson(a, Response(k, b))

\* ------------------------------------------------------------- claims
Handshake == <<"endpoint_stored", "initialize_post", "initialized", "auto_post">>

C2_OneDisconnectedAtExit ==
  [][\A a \in Attempts : Exits(a) => Count(trace[a], "Disconnected") = 1]_vars

\* C3 (as claimed): when the stream ends and no endpoint frame ever came, the
\* attempt has sent an Error event before its Disconnected event, and it is not
\* initialized.
C3_ErrorThenDisconnected ==
  [][\A a \in Attempts :
       (StreamEndedDisconnected(a) /\ ~endpoint_received[a])
         => (Precedes(trace'[a], "Error", "Disconnected") /\ ~initialized[a])]_vars

\* C4 (as claimed): list_tools / call_tool, run by the only consumer of the
\* channel, never wait to send on a full channel (nothing could drain it).
C4_CallNeverBlocked ==
  ~(cpc \in CallSends /\ Len(channel) >= ChanCap)

\* C5 (as claimed): a background task never has to wait for space in the event
\* channel, so it goes on whether or not the consumer polls.
C5_TaskNeverWaitsForSpace ==
  \A a \in Attempts : Sending(a) => Len(channel) < ChanCap

\* C6: the ids given to requests are strictly increasing (so pairwise distinct),
\* whatever the interleaving of list_tools, call_tool, initialize and the
\* automatic tools/list.
C6_IdsStrictlyIncreasing ==
  \A i, j \in DOMAIN issued : i < j => issued[i] < issued[j]

\* C6 witness: all four kinds of request have taken ids: two attempts their
\* initialize, and a call in progress took its id between the initialize and
\* the automatic tools/list of one of them.
C6_Witness ==
  \E a, b \in Attempts :
    /\ a # b
    /\ init_id[b] # 0
    /\ pc[a] = "auto_debug"
    /\ cpc # "idle"
    /\ 0 < init_id[a] /\ init_id[a] < call.id /\ call.id < req_id[a]
    /\ Len(issued) = 4

\* C7 (as claimed): a response with id k that arrives while k has an entry in
\* the correlation table removes that entry and no other.
C7_ResponseRemovesEntry ==
  [][\A a \in Attempts : \A k \in 1..MaxRespId : \A b \in Bodies :
       (k \in pending /\ TakesResponse(a, k, b)) => pending' = pending \ {k}]_vars

\* C8 (as claimed): after an attempt has sent its initialize request, a
\* response with a result and that request's id makes the attempt initialized
\* and starts the automatic tools/list.
C8_InitializeReplyInitializes ==
  [][\A a \in Attempts : \A k \in 1..MaxRespId : \A b \in {"result", "tools"} :
       ( /\ init_id[a] = k
         /\ "initialize_post" \in Range(trace[a])
         /\ ~initialized[a]
         /\ TakesResponse(a, k, b) )
         => (initialized'[a] /\ pc'[a] = "initialized")]_vars

\* C9 (as claimed): the initialize request of every attempt carries id 1.
C9_InitializeHasIdOne ==
  \A a \in Attempts : init_id[a] \in {0, 1}

\* C10 (as claimed): a list_tools / call_tool request is POSTed to the base url
\* or to an endpoint announced in the attempt that was current when it was made.
C10_NoStaleEndpoint ==
  (cpc = "post" /\ call.ep # NoEp) => call.ep_attempt = call.attempt

\* C11: the session endpoint is written only by the step in which an attempt
\* parses its first endpoint frame with data, and with that frame's payload.  So
\* an attempt writes it at most once, and every other step of its task, the
\* parsing of a later endpoint frame included, leaves it unchanged.
C11_EndpointWrittenOnce ==
  [][(session_endpoint' # session_endpoint \/ ep_attempt' # ep_attempt) =>
       \E a \in Attempts : \E f \in Frames :
         /\ f.ty = "endpoint"
         /\ BlockEndpoint(a, f)
         /\ {"endpoint_stored", "endpoint_again"} \cap Range(trace[a]) = {}
         /\ session_endpoint' = f.ep]_vars

\* C11 witness: an attempt has stored its endpoint and has then parsed another
\* endpoint frame, and the stored endpoint is still the one it wrote.
C11_Witness ==
  \E a \in Attempts :
    /\ Subseq(<<"endpoint_stored", "endpoint_again">>, trace[a])
    /\ ep_attempt = a
    /\ session_endpoint \in EpNames

\* the receive loop of attempt a is running and a later connect has fired its
\* shutdown signal
Retired(a) == InLoop(a) /\ shutdown_rx[a]

\* no task of the program can take a step, now or ever
Stopped == ~ENABLED Next

\* C12 (as claimed): a receive loop that a later connect has retired always
\* gets to its exit: while it is alive the system is never at a stop, where no
\* task can take another step and the loop would stay alive for ever.
C12_RetiredLoopExits ==
  \A a \in Attempts : Retired(a) => ~Stopped

\* C13: a receive loop that comes to its select with the shutdown signal fired
\* leaves it by the shutdown branch only, though a stream item may be ready: no
\* chunk is taken after the one in hand.
C13_ShutdownHasPriority ==
  [][\A a \in Attempts :
       (pc[a] = "select" /\ shutdown_rx[a] /\ pc'[a] # pc[a]) => pc'[a] = "shutdown"]_vars

\* C13 witness: a loop that has taken chunks before took the shutdown branch
\* while the stream had more blocks to deliver.
C13_Witness ==
  \E a \in Attempts :
    /\ pc[a] = "shutdown"
    /\ "endpoint_stored" \in Range(trace[a])
    /\ delivered < MaxFrames

\* C14: after a non-success status on the GET the task sends the Error event as
\* its next and last event and ends there: it has sent no Connected, stored no
\* endpoint and sent no POST, it takes no request id, and a task that has
\* ended never runs again (no second GET, no receive loop).
C14_NonSuccessEnds ==
  [][\A a \in Attempts :
       /\ (pc[a] = "status_bad" /\ pc'[a] # pc[a]) => pc'[a] = "http_failed"
       /\ (pc[a] = "http_failed" /\ pc'[a] # pc[a]) =>
            /\ pc'[a] = "done"
            /\ channel' = Append(channel, "Error")
            /\ trace[a] = <<>> /\ init_id[a] = 0 /\ ~endpoint_received[a]
            /\ UNCHANGED << ids, session_endpoint, pending >>
       /\ pc[a] = "done" => pc'[a] = "done"]_vars

\* C14 witness: the GET of the second connect was answered with a non-success
\* status; its task has reported the status and is about to send the Error.
C14_Witness ==
  /\ attempts = 2
  /\ pc[2] = "http_failed"
  /\ Len(channel) < ChanCap

\* the POST of the call in progress has failed (its entry was registered before)
PostFailed == cpc \in {"error_body", "call_error"} /\ call.id \in pending

\* C15: once the POST of list_tools / call_tool has failed, the call returns
\* only by sending an Error event; the entry registered for the request is in
\* the table then and stays, and the steps of the call touch neither the
\* session endpoint nor the shutdown sender nor any background task.
C15_PostFailureIsReported ==
  [][PostFailed =>
       /\ call.id \in pending'
       /\ cpc' = "idle" => (cpc = "call_error" /\ channel' = Append(channel, "Error"))
       /\ cpc' # cpc => UNCHANGED << shared, tasks >>]_vars

\* C15 witness: the stream has delivered the endpoint frame and nothing else,
\* and the one call made has returned after a failed POST: its Error is the
\* newest event in the channel and its entry is in the table.
C15_Witness ==
  /\ attempts = 1 /\ pc[1] = "select"
  /\ endpoint_received[1] /\ delivered = 1
  /\ cpc = "idle" /\ calls = 1
  /\ pending # {}
  /\ channel # <<>> /\ channel[Len(channel)] = "Error"

\* C16: a call that read no session endpoint gets to its POST only through the
\* Debug event about the missing endpoint, and its POST goes to the base url;
\* a call that read an endpoint POSTs to that endpoint put on the base url's
\* scheme, host and port.
C16_PostTarget ==
  [][/\ (cpc # "register" /\ cpc' = "register" /\ call'.ep = NoEp) =>
          (cpc = "no_endpoint" /\ channel' = Append(channel, "Debug"))
     /\ (cpc # "post" /\ cpc' = "post") =>
          call'.url = IF call.ep = NoEp
                      THEN Chars[base_url]
                      ELSE << "h", "t", "t", "p", ":", "/", "/", "h" >> \o Chars[call.ep]]_vars

\* C16 witness: after connect, with no endpoint known, a call has sent its
\* Debug events and is about to POST to the base url.
C16_Witness ==
  /\ cpc = "post"
  /\ call.ep = NoEp
  /\ attempts >= 1
  /\ call.url = Chars["http://h/sse"]

\* C17 (as claimed): for a response whose result holds a tools array with a
\* well-formed tool the classifier sends exactly one event, ToolsListed, and no
\* Message.
C17_ToolsListedOnly ==
  [][\A a \in Attempts : \A k \in 1..MaxRespId :
       BlockJson(a, Response(k, "tools")) => out'[a] = << "ToolsListed" >>]_vars

\* C19: a response with an id and an error object makes the loop send one Error
\* event and then the error body as Message, and nothing else: parsing it
\* changes neither the session endpoint nor the initialized flag nor the
\* shutdown receiver, the events are sent in that order by the task, which then
\* goes on to the next block, and no Disconnected is among them.
C19_ErrorResponse ==
  [][\A a \in Attempts :
       /\ \A k \in 1..MaxRespId :
            BlockJson(a, Response(k, "error")) =>
              /\ out'[a] = << "Error", "Message" >>
              /\ pc'[a] = "handle"
              /\ UNCHANGED << shared, ids, channel, initialized, endpoint_received,
                              shutdown_rx >>
       /\ (pc[a] = "handle" /\ << pc'[a], out'[a] >> # << pc[a], out[a] >>) =>
            /\ "Disconnected" \notin Range(out[a])
            /\ UNCHANGED << shared, ids, initialized, endpoint_received, shutdown_rx >>
            /\ \/ out[a] # <<>> /\ out'[a] = Tail(out[a]) /\ pc'[a] = "handle"
                  /\ channel' = Append(channel, Head(out[a]))
               \/ out[a] = <<>> /\ pc'[a] = "block" /\ channel' = channel]_vars

\* C19 witness: an initialized loop that holds a session endpoint has parsed an
\* error response and is about to send its Error and its Message.
C19_Witness ==
  \E a \in Attempts :
    /\ pc[a] = "handle"
    /\ out[a] = << "Error", "Message" >>
    /\ initialized[a]
    /\ session_endpoint # NoEp

\* the Message events sent for the text of the value in hand: all of them but
\* the header that precedes the text of a content item
Body == IF result.kind = "generic" THEN messages ELSE Tail(messages)

\* the notice reports `shown` of `total` lines
IsNotice(m, shown, total) ==
  /\ m.text \in {"Response truncated", "Output truncated"}
  /\ m.shown = shown /\ m.total = total

WholeFrames == take_blocks(from_utf8_lossy(bytes)).frames

\* C20 (as claimed): however the body is split into chunks, once all of it has
\* arrived the loop has extracted the same sequence of (event type, data)
\* frames as when the body arrives as one chunk.
C20_ChunkingInvariant ==
  unread = <<>> => extracted = WholeFrames

\* C21: the task of an attempt handles the blocks of its stream one after the
\* other, each once: buf gains blocks only from a chunk read with buf empty of
\* complete blocks, a block is parsed only when no event of an earlier block is
\* still to be sent, parsing it takes exactly that block out of buf, and the
\* events of the block in hand enter the channel in their order.
C21_FramesInOrder ==
  [][\A a \in Attempts :
       /\ blocks'[a] # blocks[a] =>
            \/ pc[a] = "select" /\ blocks[a] = 0 /\ pc'[a] = "block"
                 /\ delivered' - delivered = blocks'[a]
            \/ pc[a] = "block" /\ out[a] = <<>> /\ blocks'[a] = blocks[a] - 1
                 /\ delivered' = delivered
       /\ (pc[a] = "block" /\ pc'[a] # "block") =>
            \/ blocks[a] = 0 /\ pc'[a] = "select"
            \/ blocks'[a] = blocks[a] - 1
       /\ out'[a] # out[a] =>
            \/ pc[a] = "block" /\ out[a] = <<>> /\ blocks'[a] = blocks[a] - 1
            \/ /\ pc[a] = "handle" /\ out'[a] = Tail(out[a])
               /\ channel' = Append(channel, Head(out[a]))
               /\ blocks'[a] = blocks[a]]_vars

\* C21 witness: a chunk brought two blocks; the first is parsed and its events
\* are being sent while the second waits in buf.
C21_Witness ==
  \E a \in Attempts :
    /\ pc[a] = "handle" /\ out[a] = << "Error", "Message" >>
    /\ blocks[a] = 1
    /\ delivered = 2

\* the guards task t holds
Guards(t) == {l \in LockNames : held[l] = t}

\* C22: a task that holds the guard of the session-endpoint mutex or of the
\* correlation-table mutex holds no other guard and is not about to take one,
\* to POST, to sleep or to send on the event channel: the next thing it does is
\* drop the guard.
C22_LocksNotNested ==
  \A t \in LockTasks :
    Guards(t) # {} =>
      /\ Cardinality(Guards(t)) = 1
      /\ Code[point[t]].op \notin {"acquire", "post", "sleep", "send"}

\* C22 witness: the caller is inserting into the correlation table while a
\* background task is storing the session endpoint.
C22_Witness ==
  /\ held["pending"] = 0 /\ point[0] = "sj_insert"
  /\ held["session_endpoint"] = 1 /\ point[1] = "lp_store"

\* the endpoint is an absolute URL: a scheme of letters, then "://"
IsAbsoluteUrl(e) ==
  LET i == Find(e, << ":", "/", "/" >>)
  IN i > 0 /\ \A k \in 1..i : e[k] \in {"e", "h", "t", "p", "s", "w"}

\* C23: for a base scheme://host[:port][path] and an endpoint that is not an
\* absolute URL, join_url returns scheme://host[:port] followed by the endpoint
\* when the endpoint starts with "/", and otherwise the base, a "/" unless the
\* base ends with one, and the endpoint.
C23_JoinRelative ==
  LET b == url_args.base
      e == url_args.endpoint
  IN (full_url # << >> /\ b.scheme # << >> /\ ~IsAbsoluteUrl(e)) =>
       full_url = IF e # << >> /\ e[1] = "/"
             THEN b.scheme \o << ":", "/", "/" >> \o b.host \o b.port \o e
             ELSE IF b.path # << >> /\ b.path[Len(b.path)] = "/"
                  THEN BaseString(b) \o e
                  ELSE BaseString(b) \o << "/" >> \o e

\* C23 witness: the endpoint "e" has been joined to the base http://h:8/s.
C23_Witness ==
  /\ url_args.base = [scheme |-> << "h", "t", "t", "p" >>, host |-> << "h" >>,
                      port |-> << ":", "8" >>, path |-> << "/", "s" >>]
  /\ url_args.endpoint = << "e" >>
  /\ full_url = << "h", "t", "t", "p", ":", "/", "/", "h", ":", "8", "/", "s", "/", "e" >>

\* C24 (as claimed): an endpoint that is an absolute URL, whatever its scheme,
\* is returned unchanged, whatever the base.
C24_AbsoluteUnchanged ==
  (full_url # << >> /\ IsAbsoluteUrl(url_args.endpoint)) => full_url = url_args.endpoint

\* C25: after any number n of with_message calls the log holds min(n, 1000)
\* lines, and they are the messages of the last calls in the order of the calls.
C25_LogBounded ==
  /\ Len(log_lines) <= 1000
  /\ Len(log_lines) = IF appended < 1000 THEN appended ELSE 1000
  /\ \A i \in 1..Len(log_lines) : log_lines[i] = appended - Len(log_lines) + i

\* C25 witness: 1002 messages were appended; the log holds the messages 3..1002.
C25_Witness ==
  /\ appended = 1002
  /\ Len(log_lines) = 1000
  /\ log_lines[1] = 3 /\ log_lines[1000] = 1002

\* C26 (as claimed): for every buffer the keys can produce and every character
\* c, insert_char puts c at the cursor and moves the cursor on by one,
\* delete_char after it gives back the buffer, delete_char removes the
\* character that ends at the cursor and moves the cursor back by one, and
\* delete_char with the cursor at 0 leaves the buffer as it is.
C26_InsertDelete ==
  buffer # Panicked =>
    /\ \A c \in DOMAIN Utf8 :
         LET i == insert_char(buffer, c)
         IN /\ i # Panicked
            /\ i.content = Slice(buffer.content, 0, buffer.cursor) \o Utf8[c]
                             \o SliceFrom(buffer.content, buffer.cursor)
            /\ i.cursor = buffer.cursor + 1
            /\ delete_char(i) = buffer
    /\ LET d == delete_char(buffer)
       IN /\ d # Panicked
          /\ buffer.cursor = 0 => d = buffer
          /\ buffer.cursor > 0 =>
               /\ d.cursor = buffer.cursor - 1
               /\ \E w \in 1..2 :
                    /\ w <= buffer.cursor
                    /\ SubSeq(buffer.content, buffer.cursor - w + 1, buffer.cursor)
                         \in {Utf8[c] : c \in DOMAIN Utf8}
                    /\ d.content = Slice(buffer.content, 0, buffer.cursor - w)
                                     \o SliceFrom(buffer.content, buffer.cursor)

\* C27: with n >= 1 candidates the selected index is in 0..n-1 after any
\* sequence of next and prev, next from n-1 gives 0, prev from 0 gives n-1, and
\* prev after next, and next after prev, give back the selection; with no
\* candidates next and prev leave the completion as it is.
C27_SelectionWraps ==
  LET r == completion
      n == completion.candidates
  IN IF n >= 1
     THEN /\ r.selected \in 0..(n - 1)
          /\ r.selected = n - 1 => next(r).selected = 0
          /\ r.selected < n - 1 => next(r).selected = r.selected + 1
          /\ r.selected = 0 => prev(r).selected = n - 1
          /\ r.selected > 0 => prev(r).selected = r.selected - 1
          /\ prev(next(r)) = r
          /\ next(prev(r)) = r
     ELSE next(r) = r /\ prev(r) = r

\* C27 witness: the last of three candidates is selected.
C27_Witness == completion = [candidates |-> 3, selected |-> 2]

\* C28 (as claimed): an attempt becomes initialized only when it has stored a
\* session endpoint and has sent its initialize request.
C28_ReadyAfterEndpoint ==
  [][\A a \in Attempts :
       (~initialized[a] /\ initialized'[a]) =>
         /\ endpoint_received[a]
         /\ "initialize_post" \in Range(trace[a])]_vars

\* C29 (as claimed): a block with a JSON value that the loop parses before it
\* has seen the endpoint frame goes to handle_json_rpc_event, which sends for
\* it the events it sends for that value at any other time.
C29_EarlyJsonClassified ==
  [][\A a \in Attempts : \A f \in Frames :
       (/\ IsJson(f)
        /\ ~endpoint_received[a]
        /\ BlockInitialized(a, f) \/ BlockJson(a, f)) =>
         /\ pc'[a] = "handle"
         /\ out'[a] = handle_json_rpc_event(f)]_vars

\* C30 (as claimed): once the shutdown receiver of an attempt is ready, its loop
\* handles no further block that has data, those left in buf by the last chunk
\* included: from the while loop it only goes back to the select.
C30_NoFrameAfterShutdown ==
  [][\A a \in Attempts :
       (shutdown_rx[a] /\ pc[a] = "block") => pc'[a] \in {"block", "select"}]_vars

\* C31: every transport failure of a connection attempt is reported as an Error
\* event: a step in which the initialize POST fails, one in which the automatic
\* tools/list POST fails, and one that handles a stream read error each put an
\* Error event of the attempt into the channel.
ErrorReported(a) ==
  /\ Len(channel') = Len(channel) + 1
  /\ channel'[Len(channel')] = Ev("Error", a)
  /\ trace'[a] = Append(trace[a], "Error")

C31_TransportFailuresReported ==
  [][\A a \in Attempts :
       \/ SendInitializePost(a, "Err")
       \/ AutoLoadPost(a, "Err")
       \/ StreamError(a)
       => ErrorReported(a)]_vars

\* The part of C31 that is about the stream read error alone.
C31_StreamErrorReported ==
  [][\A a \in Attempts : StreamError(a) => ErrorReported(a)]_vars

\* C32: each connection attempt emits at most one Connected event and at most
\* one Disconnected event, and every Disconnected event it emits comes after a
\* Connected event of the same attempt.
C32_ConnectedOnceThenDisconnectedOnce ==
  \A a \in Attempts :
    /\ Count(trace[a], "Connected") <= 1
    /\ Count(trace[a], "Disconnected") <= 1
    /\ \A j \in DOMAIN trace[a] :
         trace[a][j] = "Disconnected"
           => \E i \in 1..(j - 1) : trace[a][i] = "Connected"

\* an attempt that has emitted Connected and, later, Disconnected
C32_Witness ==
  \E a \in Attempts : Precedes(trace[a], "Connected", "Disconnected")

\* C33: when connect is called while the receive loop of an earlier attempt is
\* alive, the Disconnected event of the earlier attempt enters the channel
\* before the Connected event of the new attempt: at the step in which an
\* attempt sends Connected, every superseded attempt whose loop is on its way
\* to Disconnected has sent it already.
Superseded(a) ==
  /\ Retired(a)
  /\ pc[a] # "stream_error"
  /\ "Error" \notin Range(trace[a])

C33_DisconnectedBeforeNewConnected ==
  [][\A b \in Attempts :
       Connected(b)
         => \A a \in Attempts \ {b} :
              Superseded(a) => "Disconnected" \in Range(trace[a])]_vars

\* C34: each connection attempt sends at most one initialize request and at
\* most one automatic tools/list request, whatever frames the server sends
\* (endpoint frames again, results with id 1 again).
C34_OneInitializeOneAutoLoad ==
  \A a \in Attempts :
    /\ Count(trace[a], "initialize_post") <= 1
    /\ Count(trace[a], "auto_post") <= 1

\* an attempt that has sent both requests and has then been given another
\* endpoint frame
C34_Witness ==
  \E a \in Attempts :
    /\ Subseq(<<"initialize_post", "auto_post", "endpoint_again">>, trace[a])
    /\ pc[a] = "select"

\* C38: after any sequence of insert_char, delete_char, move_left, move_right,
\* move_start, move_end and clear, the cursor of the Buffer is at least 0 and at
\* most content.len().  (A call that panics returns no Buffer.)
C38_CursorInContent ==
  buffer # Panicked =>
    /\ 0 <= buffer.cursor
    /\ buffer.cursor <= Len(buffer.content)

\* a full buffer with a two-byte character in it and the cursor at its end
C38_Witness ==
  /\ buffer # Panicked
  /\ Len(buffer.content) = MaxBufferBytes
  /\ "C3" \in Range(buffer.content)
  /\ buffer.cursor = MaxBufferBytes

\* C39 (as claimed): for every text, width and indent, every line wrap_text
\* returns has at most width bytes and starts with indent spaces.
C39_LinesFitAndIndented ==
  wrapping.returned =>
    \A i \in DOMAIN wrapping.wrapped :
      LET line == wrapping.wrapped[i]
      IN /\ Len(line) <= wrapping.width
         /\ Len(line) >= wrapping.indent
         /\ \A j \in 1..wrapping.indent : line[j] = " "

\* The part of C39 about the indent, and the bound that does hold: a line is
\* longer than width only if it is a single word.
C39_IndentedAndOneWordOverflows ==
  wrapping.returned =>
    \A i \in DOMAIN wrapping.wrapped :
      LET line == wrapping.wrapped[i]
      IN /\ Len(line) >= wrapping.indent
         /\ \A j \in 1..wrapping.indent : line[j] = " "
         /\ \/ Len(line) <= wrapping.width
            \/ \A j \in (wrapping.indent + 1)..Len(line) : line[j] = "x"

\* C35: the App issues call_tool only for a tool that is in its available-tool
\* list at the time of the call (so none after a Disconnected event was
\* consumed, until a ToolsListed event is): a step that calls call_tool names a
\* tool of available_tools.
C35_CallsAvailableTool ==
  [][(app'.issued # <<>> /\ app'.issued[1] = "call_tool")
       => app'.issued[2] \in Range(app.available_tools)]_vars

\* The calls made outside a tool selection, by the run command: these name an
\* available tool.
C35_RunCommandCallsAvailableTool ==
  [][(app.tool_selection = <<>> /\ app'.issued # <<>> /\ app'.issued[1] = "call_tool")
       => app'.issued[2] \in Range(app.available_tools)]_vars

\* C36: after any sequence of key and tick events at most one of server
\* selection and tool selection is active, the list of an active selection is
\* not empty, and its selected index is an index into that list (so that no key
\* of a selection panics).
ValidSelection(sel) ==
  sel # <<>> => /\ sel[1].list # <<>>
                /\ sel[1].selected \in 0..(Len(sel[1].list) - 1)

C36_SelectionsValid ==
  /\ app.server_selection = <<>> \/ app.tool_selection = <<>>
  /\ ValidSelection(app.server_selection)
  /\ ValidSelection(app.tool_selection)
  /\ ~app.panicked

\* a tool selection of two tools with the second one selected, after the
\* available tools were replaced by a ToolsListed event
C36_Witness ==
  /\ app.tool_selection # <<>>
  /\ Len(app.tool_selection[1].list) = 2
  /\ app.tool_selection[1].selected = 1
  /\ app.available_tools # app.tool_selection[1].list

\* C37: after any sequence of key events, MCP events, output clears and
\* resizes, scroll_offset is at most max_scroll_offset.
C37_ScrollOffsetInRange == app.scroll_offset <= max_scroll_offset(app)

====
